---- MODULE Spec2Model ----
(***************************************************************************)
(* WhitespaceVM: tokenizer, parser with label backpatching, and the        *)
(* bytecode VM, modelled step by step from the Rust sources.               *)
(*                                                                         *)
(* Machine integers are modelled at a reduced width: i64 and usize of the  *)
(* 64-bit host both become IntBits-bit integers, so that every wrap,       *)
(* truncation and overflow of the code happens inside the model's bounds.  *)
(* Where the behaviour depends on the build (overflow checks on: panic;    *)
(* off: two's complement wrap) both builds are followed, each run keeping  *)
(* to the build of its first overflow.                                     *)
(***************************************************************************)
EXTENDS Integers, Sequences, FiniteSets, TLC

VARIABLES
    stmts,          \* the source as written, statement by statement
    src,            \* Tokens.source: the bytes of the source text
    cur,            \* Tokens.idx, Tokens.line_no, Parser.prev_line_no, Parser.curr
    labels,         \* Parser.labels: LabelMap {pc_map, inst_list}
    program,        \* Parser.program / Vm.program: Program
    pending,        \* patch_jumps: entries of inst_list the iterator has not yielded yet
    phase,          \* position of run_source
    parse_error,    \* <<>> or <<ParseError>>
    stack,          \* Vm.stack
    call_stack,     \* Vm.call_stack
    heap,           \* Vm.heap
    output,         \* bytes printed to stdout by the VM (code points)
    traceback,      \* <<>> or <<Traceback>>
    last,           \* the latest iteration of the VM: its instruction and the Vm before it
    writes,         \* per address, the latest write of the run: by which opcode, and what a Store wrote
    steps,          \* number of VM iterations so far
    callers,        \* per live frame above the top-level one, the Call that made it: its index and the call stack it ran on
    overflow_checks \* the build: <<>> until an overflow shows it, then <<TRUE>> or <<FALSE>>

vars == <<stmts, src, cur, labels, program, pending, phase, parse_error,
          stack, call_stack, heap, output, traceback, last, writes, steps,
          callers, overflow_checks>>

parserVars == <<cur, labels, program, pending, parse_error>>
vmVars == <<stack, call_stack, heap, output, traceback, last, writes, steps,
            callers>>

----------------------------------------------------------------------------
(* Bounds of the model *)

\* width of the machine integers (i64, usize) in the model
IntBits == 5
\* longest source, in statements, given to the parser alone
MaxParseStmts == 4
\* longest source, in statements, given to run_source
MaxRunStmts == 2
\* most iterations of the VM loop that are followed
MaxSteps == 12

----------------------------------------------------------------------------
(* Machine integers *)

RECURSIVE Pow2(_)
Pow2(n) == IF n = 0 THEN 1 ELSE 2 * Pow2(n - 1)

IntMod == Pow2(IntBits)
IntMin == 0 - Pow2(IntBits - 1)
IntMax == Pow2(IntBits - 1) - 1

\* two's complement reduction into the signed range (i64 wrapping)
WrapI(x) == ((x - IntMin) % IntMod) + IntMin
\* reduction into the unsigned range (usize wrapping, `as usize`)
WrapU(x) == x % IntMod

InI(x) == x >= IntMin /\ x <= IntMax
InU(x) == x >= 0 /\ x < IntMod

\* Option<T>: <<>> is None, <<x>> is Some(x)
None == <<>>
Some(x) == <<x>>

\* the settings of overflow checks the build of this run can have
Builds == IF overflow_checks = None THEN BOOLEAN ELSE {overflow_checks[1]}
\* the build after a step taken with this setting: known once the step
\* differs between the builds
BuildAfter(differs, checks) == IF differs THEN Some(checks) ELSE overflow_checks

\* i64::checked_shl(rhs): None only when rhs >= the bit width; the bits
\* shifted out are dropped
CheckedShlI(x, rhs) == IF rhs >= IntBits THEN None ELSE Some(WrapI(x * Pow2(rhs)))
\* usize::checked_shl(rhs)
CheckedShlU(x, rhs) == IF rhs >= IntBits THEN None ELSE Some(WrapU(x * Pow2(rhs)))

\* a literal whose 1 bits are not or-ed in
OrOneDropped(x) == x

\* x | 1 on a two's complement integer
OrOne(x) == IF x % 2 = 0 THEN x + 1 ELSE x

----------------------------------------------------------------------------
(* Tokenizer (token.rs) *)

\* Tokens::next: skip insignificant bytes; a line break increments line_no
RECURSIVE TokensNext(_)
TokensNext(c) ==
    IF c.idx < Len(src)
    THEN LET b == src[c.idx + 1]
             c1 == [c EXCEPT !.idx = c.idx + 1]
         IN  CASE b = " "  -> [c1 EXCEPT !.curr = "Space"]
               [] b = "\t" -> [c1 EXCEPT !.curr = "Tab"]
               [] b = "\n" -> [c1 EXCEPT !.curr = "Newline", !.line_no = c.line_no + 1]
               [] OTHER    -> TokensNext(c1)
    ELSE [c EXCEPT !.curr = "None"]

\* Parser::get_next
get_next(c) == TokensNext([c EXCEPT !.prev_line_no = c.line_no])

\* Parser::matches: whether the current token is tok (the cursor then advances)
matches(c, tok) == c.curr = tok

\* Parser::error: a ParseError at the tokenizer's current line
ParseErr(kind, inst_type, line_no) ==
    [kind |-> kind, inst_type |-> inst_type, line_no |-> line_no]

\* Parser::get_next_two
get_next_two(c) ==
    LET first  == c.curr
        c1     == get_next(c)
        second == c1.curr
        c2     == get_next(c1)
    IN  [ok |-> first # "None" /\ second # "None",
         first |-> first, second |-> second, c |-> c2]

----------------------------------------------------------------------------
(* Program (program.rs) and LabelMap (parser/label_map.rs) *)

\* HashMap::new
EmptyMap == [k \in {} |-> 0]
\* HashMap::insert: a later insert of the same key overwrites
MapInsert(m, k, v) == [x \in (DOMAIN m) \cup {k} |-> IF x = k THEN v ELSE m[x]]
\* HashMap::get(..).cloned()
MapGet(m, k) == IF k \in DOMAIN m THEN Some(m[k]) ELSE None

Inst(op, arg) == [op |-> op, arg |-> arg]

\* Program::new
ProgramNew ==
    [instructions |-> <<>>, line_nos |-> <<>>, constants |-> <<>>,
     sub_labels |-> EmptyMap]

\* LabelMap::new
LabelMapNew == [pc_map |-> EmptyMap, inst_list |-> EmptyMap]

\* Iterator::position: index (from 0) of the first element equal to x
Position(seq, x) ==
    IF \E i \in 1..Len(seq) : seq[i] = x
    THEN Some((CHOOSE i \in 1..Len(seq) :
                  seq[i] = x /\ \A j \in 1..(i - 1) : seq[j] # x) - 1)
    ELSE None

\* add_const without the search for an equal entry
AddConstPoolAlways(constants, constant) == Append(constants, constant)

\* Program::add_const: the constant pool after interning constant
AddConstPool(constants, constant) ==
    IF Position(constants, constant) # None
    THEN constants
    ELSE Append(constants, constant)

\* Program::add_const: the index returned
AddConstIdx(constants, constant) ==
    IF Position(constants, constant) # None
    THEN Position(constants, constant)[1]
    ELSE Len(Append(constants, constant)) - 1

\* Program::get_const (a Vec index: out of range is a panic, see Exec)
get_const(prog, idx) == prog.constants[idx + 1]

\* Program::get_label
get_label_of(prog, pc) == MapGet(prog.sub_labels, pc)

\* Program::add_sub_label
add_sub_label(prog, pc, label) ==
    [prog EXCEPT !.sub_labels = MapInsert(prog.sub_labels, pc, label)]

\* Program::inst_count
inst_count(prog) == Len(prog.instructions)

\* Program::emit
ProgramEmit(prog, inst, line_no) ==
    [prog EXCEPT !.line_nos = Append(prog.line_nos, line_no),
                 !.instructions = Append(prog.instructions, inst)]

\* LabelMap::get_pc
get_pc(lbls, label) == MapGet(lbls.pc_map, label)

\* LabelMap::add_inst
add_inst(lbls, idx, label) ==
    [lbls EXCEPT !.inst_list = MapInsert(lbls.inst_list, idx, label)]

\* add_label that keeps the first declaration of a label
add_label_first(lbls, label, pc) ==
    IF label \in DOMAIN lbls.pc_map THEN lbls
    ELSE [lbls EXCEPT !.pc_map = MapInsert(lbls.pc_map, label, pc)]

\* LabelMap::add_label
add_label(lbls, label, pc) ==
    [lbls EXCEPT !.pc_map = MapInsert(lbls.pc_map, label, pc)]

----------------------------------------------------------------------------
(* Parser: literals (parser/mod.rs) *)

UNINITIALIZED_JUMP_TARGET == 0

\* results of the parser's fallible functions: Ok (with the value and the
\* cursor after it), Err (a ParseError) or a panic of the host
LitOk(val, c) == [kind |-> "ok", val |-> val, c |-> c, err |-> None]
LitErr(e)     == [kind |-> "err", val |-> 0, c |-> cur, err |-> Some(e)]
LitPanic      == [kind |-> "panic", val |-> 0, c |-> cur, err |-> None]

\* the bit loop of get_number (lines 91-110)
RECURSIVE NumberLoop(_, _)
NumberLoop(c, num) ==
    CASE matches(c, "Space") ->
           LET c1 == get_next(c)
               x  == CheckedShlI(num, 1)
           IN  IF x = None
               THEN LitErr(ParseErr("LiteralOverflow", "", c1.line_no))
               ELSE NumberLoop(c1, x[1])
      [] matches(c, "Tab") ->
           LET c1 == get_next(c)
               x  == CheckedShlI(num, 1)
           IN  IF x = None
               THEN LitErr(ParseErr("LiteralOverflow", "", c1.line_no))
               ELSE NumberLoop(c1, OrOne(x[1]))
      [] matches(c, "Newline") -> LitOk(num, get_next(c))
      [] OTHER -> LitErr(ParseErr("UnexpectedEof", "", c.line_no))

\* the negation of line 113: -num overflows for i64::MIN, which panics with
\* overflow checks and wraps to i64::MIN without them
Negate(r, checks) ==
    IF r.val = IntMin
    THEN IF checks THEN {LitPanic} ELSE {LitOk(IntMin, r.c)}
    ELSE {LitOk(0 - r.val, r.c)}

\* Parser::get_number, in a build with or without overflow checks
get_number(c, checks) ==
    IF ~matches(c, "Space") /\ ~matches(c, "Tab")
    THEN {LitErr(ParseErr("InvalidLiteral", "", c.line_no))}
    ELSE LET is_negative == matches(c, "Tab")
             r == NumberLoop(get_next(c), 0)
         IN  IF r.kind = "ok" /\ is_negative THEN Negate(r, checks) ELSE {r}

\* Parser::get_label
RECURSIVE get_label(_, _)
get_label(c, label) ==
    CASE matches(c, "Space") ->
           LET c1 == get_next(c)
               x  == CheckedShlU(label, 1)
           IN  IF x = None
               THEN LitErr(ParseErr("TooManyLabels", "", c1.line_no))
               ELSE get_label(c1, x[1])
      [] matches(c, "Tab") ->
           LET c1 == get_next(c)
               x  == CheckedShlU(label, 1)
           IN  IF x = None
               THEN LitErr(ParseErr("TooManyLabels", "", c1.line_no))
               ELSE get_label(c1, OrOne(x[1]))
      [] matches(c, "Newline") -> LitOk(label, get_next(c))
      [] OTHER -> LitErr(ParseErr("UnexpectedEof", "", c.line_no))

----------------------------------------------------------------------------
(* Parser: one instruction (parser/mod.rs) *)

\* results of the get_*_inst functions: the parser after the instruction,
\* a ParseError, or a panic of the host
POk(c, prog, lbls) ==
    [kind |-> "ok", c |-> c, program |-> prog, labels |-> lbls, err |-> None]
PErr(e) ==
    [kind |-> "err", c |-> cur, program |-> program, labels |-> labels,
     err |-> Some(e)]
PPanic ==
    [kind |-> "panic", c |-> cur, program |-> program, labels |-> labels,
     err |-> None]

\* the ? operator on a failed literal
Propagate(r) == IF r.kind = "panic" THEN PPanic ELSE PErr(r.err[1])

\* Parser::invalid_inst
invalid_inst(c, inst_type) == ParseErr("InvalidInstruction", inst_type, c.line_no)

\* Parser::emit: the instruction is tagged with prev_line_no
emit(c, prog, inst) == ProgramEmit(prog, inst, c.prev_line_no)

\* Push (lines 148-156)
StackPush(c, prog, lbls, checks) ==
    { IF r.kind = "ok"
      THEN POk(r.c,
               emit(r.c,
                    [prog EXCEPT !.constants = AddConstPool(prog.constants, r.val)],
                    Inst("Push", AddConstIdx(prog.constants, r.val))),
               lbls)
      ELSE Propagate(r) : r \in get_number(get_next(c), checks) }

\* an instruction with a number operand: Copy, Slide (lines 160-169)
WithNumber(c, prog, lbls, op, checks) ==
    { IF r.kind = "ok"
      THEN POk(r.c, emit(r.c, prog, Inst(op, r.val)), lbls)
      ELSE Propagate(r) : r \in get_number(c, checks) }

\* an instruction without operand
Plain(c, prog, lbls, op) == {POk(c, emit(c, prog, Inst(op, 0)), lbls)}

\* Parser::get_stack_inst
get_stack_inst(c, prog, lbls, checks) ==
    IF matches(c, "Space")
    THEN StackPush(c, prog, lbls, checks)
    ELSE LET t == get_next_two(c)
         IN  IF ~t.ok
             THEN {PErr(ParseErr("UnexpectedEof", "", t.c.line_no))}
             ELSE CASE t.first = "Tab" /\ t.second = "Space" ->
                         WithNumber(t.c, prog, lbls, "Copy", checks)
                    [] t.first = "Tab" /\ t.second = "Newline" ->
                         WithNumber(t.c, prog, lbls, "Slide", checks)
                    [] t.first = "Newline" /\ t.second = "Space" ->
                         Plain(t.c, prog, lbls, "Dup")
                    [] t.first = "Newline" /\ t.second = "Tab" ->
                         Plain(t.c, prog, lbls, "Swap")
                    [] t.first = "Newline" /\ t.second = "Newline" ->
                         Plain(t.c, prog, lbls, "Pop")
                    [] OTHER -> {PErr(invalid_inst(t.c, "Stack"))}

\* Parser::get_arith_inst
get_arith_inst(c, prog, lbls) ==
    LET t == get_next_two(c)
    IN  IF ~t.ok
        THEN {PErr(ParseErr("UnexpectedEof", "", t.c.line_no))}
        ELSE CASE t.first = "Space" /\ t.second = "Space" ->
                    Plain(t.c, prog, lbls, "Add")
               [] t.first = "Space" /\ t.second = "Tab" ->
                    Plain(t.c, prog, lbls, "Subtract")
               [] t.first = "Space" /\ t.second = "Newline" ->
                    Plain(t.c, prog, lbls, "Multiply")
               [] t.first = "Tab" /\ t.second = "Space" ->
                    Plain(t.c, prog, lbls, "Divide")
               [] t.first = "Tab" /\ t.second = "Tab" ->
                    Plain(t.c, prog, lbls, "Modulo")
               [] OTHER -> {PErr(invalid_inst(t.c, "Arithmetic"))}

\* a get_heap_inst that knows Store alone
get_heap_inst_store_only(c, prog, lbls) ==
    CASE matches(c, "Space") -> Plain(get_next(c), prog, lbls, "Store")
      [] OTHER               -> {PErr(invalid_inst(c, "Heap"))}

\* Parser::get_heap_inst
get_heap_inst(c, prog, lbls) ==
    CASE matches(c, "Space") -> Plain(get_next(c), prog, lbls, "Store")
      [] matches(c, "Tab")   -> Plain(get_next(c), prog, lbls, "Retrieve")
      [] OTHER               -> {PErr(invalid_inst(c, "Heap"))}

\* Parser::get_io_inst
get_io_inst(c, prog, lbls) ==
    LET t == get_next_two(c)
    IN  IF ~t.ok
        THEN {PErr(ParseErr("UnexpectedEof", "", t.c.line_no))}
        ELSE CASE t.first = "Space" /\ t.second = "Space" ->
                    Plain(t.c, prog, lbls, "OutputChar")
               [] t.first = "Space" /\ t.second = "Tab" ->
                    Plain(t.c, prog, lbls, "OutputNum")
               [] t.first = "Tab" /\ t.second = "Space" ->
                    Plain(t.c, prog, lbls, "ReadChar")
               [] t.first = "Tab" /\ t.second = "Tab" ->
                    Plain(t.c, prog, lbls, "ReadNum")
               [] OTHER -> {PErr(invalid_inst(t.c, "Io"))}

\* a label declaration (lines 259-264)
DeclareLabel(c, prog, lbls) ==
    LET r == get_label(c, 0)
    IN  IF r.kind = "ok"
        THEN {POk(r.c, prog, add_label(lbls, r.val, inst_count(prog)))}
        ELSE {Propagate(r)}

\* Call, Jump, JumpIfZero, JumpIfNeg: the instruction is emitted with the
\* placeholder target and recorded against its label (lines 265-296)
WithLabel(c, prog, lbls, op) ==
    LET r == get_label(c, 0)
    IN  IF r.kind = "ok"
        THEN {POk(r.c,
                  emit(r.c, prog, Inst(op, UNINITIALIZED_JUMP_TARGET)),
                  add_inst(lbls, inst_count(prog), r.val))}
        ELSE {Propagate(r)}

\* Parser::get_flow_inst
get_flow_inst(c, prog, lbls) ==
    LET t == get_next_two(c)
    IN  IF ~t.ok
        THEN {PErr(ParseErr("UnexpectedEof", "", t.c.line_no))}
        ELSE CASE t.first = "Space" /\ t.second = "Space" ->
                    DeclareLabel(t.c, prog, lbls)
               [] t.first = "Space" /\ t.second = "Tab" ->
                    WithLabel(t.c, prog, lbls, "Call")
               [] t.first = "Space" /\ t.second = "Newline" ->
                    WithLabel(t.c, prog, lbls, "Jump")
               [] t.first = "Tab" /\ t.second = "Space" ->
                    WithLabel(t.c, prog, lbls, "JumpIfZero")
               [] t.first = "Tab" /\ t.second = "Tab" ->
                    WithLabel(t.c, prog, lbls, "JumpIfNeg")
               [] t.first = "Tab" /\ t.second = "Newline" ->
                    Plain(t.c, prog, lbls, "Return")
               [] t.first = "Newline" /\ t.second = "Newline" ->
                    Plain(t.c, prog, lbls, "End")
               [] OTHER -> {PErr(invalid_inst(t.c, "ControlFlow"))}

----------------------------------------------------------------------------
(* Sources: the encoding of each statement that the parser decodes *)

Stmt(op, neg, bits) == [op |-> op, neg |-> neg, bits |-> bits]

\* a bit of a literal or label: Space is 0, Tab is 1 (lines 92-104, 124-136)
BitByte(b) == IF b = 0 THEN " " ELSE "\t"

\* the bytes of a label: its bits and the terminating line break
LabelBytes(bits) == [i \in 1..Len(bits) |-> BitByte(bits[i])] \o <<"\n">>

\* the bytes of a number: sign (Space +, Tab -), bits, line break
NumberBytes(neg, bits) == <<IF neg THEN "\t" ELSE " ">> \o LabelBytes(bits)

\* uninterpreted bytes of a Raw statement
RawByte(b) == CASE b = 0 -> " " [] b = 1 -> "\t" [] b = 2 -> "\n" [] OTHER -> "x"

\* the bytes of one statement (the tables of parse and get_*_inst)
EncodeStmt(st) ==
    CASE st.op = "Push"       -> <<" ", " ">> \o NumberBytes(st.neg, st.bits)
      [] st.op = "Copy"       -> <<" ", "\t", " ">> \o NumberBytes(st.neg, st.bits)
      [] st.op = "Slide"      -> <<" ", "\t", "\n">> \o NumberBytes(st.neg, st.bits)
      [] st.op = "Dup"        -> <<" ", "\n", " ">>
      [] st.op = "Swap"       -> <<" ", "\n", "\t">>
      [] st.op = "Pop"        -> <<" ", "\n", "\n">>
      [] st.op = "Add"        -> <<"\t", " ", " ", " ">>
      [] st.op = "Subtract"   -> <<"\t", " ", " ", "\t">>
      [] st.op = "Multiply"   -> <<"\t", " ", " ", "\n">>
      [] st.op = "Divide"     -> <<"\t", " ", "\t", " ">>
      [] st.op = "Modulo"     -> <<"\t", " ", "\t", "\t">>
      [] st.op = "Store"      -> <<"\t", "\t", " ">>
      [] st.op = "Retrieve"   -> <<"\t", "\t", "\t">>
      [] st.op = "OutputChar" -> <<"\t", "\n", " ", " ">>
      [] st.op = "OutputNum"  -> <<"\t", "\n", " ", "\t">>
      [] st.op = "ReadChar"   -> <<"\t", "\n", "\t", " ">>
      [] st.op = "ReadNum"    -> <<"\t", "\n", "\t", "\t">>
      [] st.op = "Label"      -> <<"\n", " ", " ">> \o LabelBytes(st.bits)
      [] st.op = "Call"       -> <<"\n", " ", "\t">> \o LabelBytes(st.bits)
      [] st.op = "Jump"       -> <<"\n", " ", "\n">> \o LabelBytes(st.bits)
      [] st.op = "JumpIfZero" -> <<"\n", "\t", " ">> \o LabelBytes(st.bits)
      [] st.op = "JumpIfNeg"  -> <<"\n", "\t", "\t">> \o LabelBytes(st.bits)
      [] st.op = "Return"     -> <<"\n", "\t", "\n">>
      [] st.op = "End"        -> <<"\n", "\n", "\n">>
      [] OTHER                -> [i \in 1..Len(st.bits) |-> RawByte(st.bits[i])]

RECURSIVE Encode(_)
Encode(ss) == IF ss = <<>> THEN <<>> ELSE EncodeStmt(Head(ss)) \o Encode(Tail(ss))

\* all sources of at most n statements of lib
Sources(lib, n) == UNION {[1..k -> lib] : k \in 0..n}

----------------------------------------------------------------------------
(* Parser::new and Parser::parse *)

\* Tokens::new and Parser::new (token.rs 15-23, parser/mod.rs 24-34)
InitParser(inputs) ==
    /\ stmts \in inputs
    /\ src = Encode(stmts)
    /\ cur = [idx |-> 0, line_no |-> 1, prev_line_no |-> 1, curr |-> "None"]
    /\ labels = LabelMapNew
    /\ program = ProgramNew
    /\ pending = {}
    /\ phase = "new"
    /\ parse_error = None
    /\ stack = <<>>
    /\ call_stack = <<>>
    /\ heap = EmptyMap
    /\ output = <<>>
    /\ traceback = None
    /\ last = None
    /\ writes = EmptyMap
    /\ steps = 0
    /\ callers = <<>>
    /\ overflow_checks = None

\* the effect of one get_*_inst call on the parser
Apply(r) ==
    /\ phase' = CASE r.kind = "ok" -> "parsing"
                  [] r.kind = "err" -> "parse_error"
                  [] OTHER -> "panic"
    /\ cur' = r.c
    /\ program' = r.program
    /\ labels' = r.labels
    /\ parse_error' = r.err
    /\ UNCHANGED <<stmts, src, pending>>
    /\ UNCHANGED vmVars

\* parse, line 347: the first token is read
ParseBegin ==
    /\ phase = "new"
    /\ cur' = get_next(cur)
    /\ phase' = "parsing"
    /\ UNCHANGED <<stmts, src, labels, program, pending, parse_error, overflow_checks>>
    /\ UNCHANGED vmVars

\* parse, lines 350-351
ParseStackInst ==
    /\ phase = "parsing"
    /\ matches(cur, "Space")
    /\ \E checks \in Builds :
         /\ \E r \in get_stack_inst(get_next(cur), program, labels, checks) : Apply(r)
         /\ overflow_checks' =
              BuildAfter(get_stack_inst(get_next(cur), program, labels, TRUE)
                           # get_stack_inst(get_next(cur), program, labels, FALSE),
                         checks)

\* parse, lines 352-354
ParseArithInst ==
    /\ phase = "parsing"
    /\ matches(cur, "Tab")
    /\ matches(get_next(cur), "Space")
    /\ \E r \in get_arith_inst(get_next(get_next(cur)), program, labels) : Apply(r)
    /\ UNCHANGED overflow_checks

\* parse, lines 355-356
ParseHeapInst ==
    /\ phase = "parsing"
    /\ matches(cur, "Tab")
    /\ matches(get_next(cur), "Tab")
    /\ \E r \in get_heap_inst(get_next(get_next(cur)), program, labels) : Apply(r)
    /\ UNCHANGED overflow_checks

\* parse, lines 357-358
ParseIoInst ==
    /\ phase = "parsing"
    /\ matches(cur, "Tab")
    /\ matches(get_next(cur), "Newline")
    /\ \E r \in get_io_inst(get_next(get_next(cur)), program, labels) : Apply(r)
    /\ UNCHANGED overflow_checks

\* parse, lines 359-361: a Tab at the end of the source
ParseUnknownInst ==
    /\ phase = "parsing"
    /\ matches(cur, "Tab")
    /\ get_next(cur).curr = "None"
    /\ Apply(PErr(invalid_inst(get_next(cur), "Unknown")))
    /\ UNCHANGED overflow_checks

\* parse, lines 362-363
ParseFlowInst ==
    /\ phase = "parsing"
    /\ matches(cur, "Newline")
    /\ \E r \in get_flow_inst(get_next(cur), program, labels) : Apply(r)
    /\ UNCHANGED overflow_checks

\* parse, lines 364-368: the tokens are exhausted, patch_jumps starts
\* iterating over inst_list
ParseEof ==
    /\ phase = "parsing"
    /\ cur.curr = "None"
    /\ phase' = "patching"
    /\ pending' = DOMAIN labels.inst_list
    /\ UNCHANGED <<stmts, src, cur, labels, program, parse_error, overflow_checks>>
    /\ UNCHANGED vmVars

IsJump(op) == op \in {"Call", "Jump", "JumpIfZero", "JumpIfNeg"}

\* a rewrite that leaves the placeholder in place
PatchedStale(prog, idx, pc) == prog

\* the instruction list after one instruction is rewritten (lines 325-336)
Patched(prog, idx, pc) ==
    [prog EXCEPT !.instructions[idx + 1] = Inst(prog.instructions[idx + 1].op, pc)]

\* the result of one iteration of patch_jumps for the entry (idx, label)
PatchOne(prog, lbls, idx, label) ==
    LET pc == get_pc(lbls, label)
    IN  IF pc = None
        THEN PErr(ParseErr("InvalidLabel", "", prog.line_nos[idx + 1]))
        ELSE IF ~IsJump(prog.instructions[idx + 1].op)
        THEN PPanic
        ELSE IF prog.instructions[idx + 1].op = "Call"
        THEN POk(cur, add_sub_label(Patched(prog, idx, pc[1]), pc[1], label), lbls)
        ELSE POk(cur, Patched(prog, idx, pc[1]), lbls)

\* what patch_jumps can return for the entries todo of inst_list, over every
\* order in which the iterator can yield them: Ok with the patched program,
\* or the error of the first entry that fails
RECURSIVE PatchOutcomes(_, _, _)
PatchOutcomes(prog, lbls, todo) ==
    IF todo = {}
    THEN {[kind |-> "ok", program |-> prog, err |-> None]}
    ELSE UNION { LET r == PatchOne(prog, lbls, idx, lbls.inst_list[idx])
                 IN  IF r.kind = "ok"
                     THEN PatchOutcomes(r.program, lbls, todo \ {idx})
                     ELSE {[kind |-> r.kind, program |-> ProgramNew, err |-> r.err]}
                 : idx \in todo }

\* patch_jumps, one iteration: the HashMap iterator yields the entries of
\* inst_list in an unspecified order
PatchJump ==
    /\ phase = "patching"
    /\ \E idx \in pending :
         LET r == PatchOne(program, labels, idx, labels.inst_list[idx])
         IN  /\ phase' = CASE r.kind = "ok" -> "patching"
                           [] r.kind = "err" -> "parse_error"
                           [] OTHER -> "panic"
             /\ program' = r.program
             /\ parse_error' = r.err
             /\ pending' = pending \ {idx}
    /\ UNCHANGED <<stmts, src, cur, labels, overflow_checks>>
    /\ UNCHANGED vmVars

\* patch_jumps returns Ok and parse returns the program (lines 342, 370)
PatchDone ==
    /\ phase = "patching"
    /\ pending = {}
    /\ phase' = "parsed"
    /\ UNCHANGED <<stmts, src, cur, labels, program, pending, parse_error,
                   overflow_checks>>
    /\ UNCHANGED vmVars

NextParse ==
    \/ ParseBegin
    \/ ParseStackInst
    \/ ParseArithInst
    \/ ParseHeapInst
    \/ ParseIoInst
    \/ ParseUnknownInst
    \/ ParseFlowInst
    \/ ParseEof
    \/ PatchJump
    \/ PatchDone

----------------------------------------------------------------------------
(* VM (vm/mod.rs, vm/frame.rs, vm/error.rs) *)

\* CallFrame::new and CallFrame::new_main
CallFrameNew(pc, label) == [pc |-> pc, label |-> Some(label)]
CallFrameNewMain == [pc |-> 0, label |-> None]

\* the mutable part of a Vm
VmState(stk, cs, hp, out) ==
    [stack |-> stk, call_stack |-> cs, heap |-> hp, output |-> out]

\* outcomes of one iteration of the loop of Vm::run
Continue(v) == [status |-> "running", v |-> v, traceback |-> None]
Halt(v)     == [status |-> "halted", v |-> v, traceback |-> None]
HostPanic(v) == [status |-> "panic", v |-> v, traceback |-> None]

\* Program::line_at is a Vec index: it panics at idx >= len
LineAtFaults(prog, idx) == idx >= Len(prog.line_nos)
line_at(prog, idx) == prog.line_nos[idx + 1]

\* a traceback that lists the frames from the innermost one
TraceEntriesReversed(prog, cs) ==
    [i \in 1..Len(cs) |->
        [line_no |-> prog.line_nos[cs[Len(cs) + 1 - i].pc + 1],
         label |-> cs[Len(cs) + 1 - i].label]]

\* TraceEntry::new for each frame (runtime_error, lines 35-40)
TraceEntries(prog, cs) ==
    [i \in 1..Len(cs) |-> [line_no |-> line_at(prog, cs[i].pc), label |-> cs[i].label]]

\* Vm::runtime_error, then the return of Err from run: the traceback reads
\* the line of every frame's pc, which has already been advanced
runtime_error(v, reason) ==
    IF \E i \in 1..Len(v.call_stack) : LineAtFaults(program, v.call_stack[i].pc)
    THEN HostPanic(v)
    ELSE [status |-> "traceback", v |-> v,
          traceback |-> Some([stack |-> TraceEntries(program, v.call_stack),
                              reason |-> reason])]

\* Vm::push
push(v, value) == [v EXCEPT !.stack = Append(v.stack, value)]

\* Vm::pop on a non-empty stack: the Vm after it (the value is Top)
Top(v) == v.stack[Len(v.stack)]
pop(v) == [v EXCEPT !.stack = SubSeq(v.stack, 1, Len(v.stack) - 1)]

\* Vm::current_frame().pc = pc
SetPc(v, pc) == [v EXCEPT !.call_stack[Len(v.call_stack)].pc = pc]

\* Rust's / and % on i64: the quotient is truncated towards zero and the
\* remainder has the sign of the dividend
Abs(x) == IF x < 0 THEN 0 - x ELSE x
TruncDiv(l, r) ==
    IF (l < 0) = (r < 0) THEN Abs(l) \div Abs(r) ELSE 0 - (Abs(l) \div Abs(r))
TruncRem(l, r) == l - r * TruncDiv(l, r)

\* left + right, left - right, left * right on i64 (lines 122, 128, 134):
\* out of range is a panic with overflow checks and wraps without them
ArithResult(op, left, right) ==
    CASE op = "Add"      -> left + right
      [] op = "Subtract" -> left - right
      [] OTHER           -> left * right

\* Add, Subtract, Multiply (lines 119-136)
ExecArith(v, op, checks) ==
    IF v.stack = <<>> THEN runtime_error(v, "StackUnderflow")
    ELSE LET right == Top(v)
             v1 == pop(v)
         IN  IF v1.stack = <<>> THEN runtime_error(v1, "StackUnderflow")
             ELSE LET left == Top(v1)
                      v2 == pop(v1)
                      result == ArithResult(op, left, right)
                  IN  IF ~InI(result) /\ checks
                      THEN HostPanic(v2)
                      ELSE Continue(push(v2, WrapI(result)))

\* Divide, Modulo (lines 137-156): the division of i64::MIN by -1 panics in
\* every build
ExecDivMod(v, op) ==
    IF v.stack = <<>> THEN runtime_error(v, "StackUnderflow")
    ELSE LET right == Top(v)
             v1 == pop(v)
         IN  IF right = 0 THEN runtime_error(v1, "ZeroDivision")
             ELSE IF v1.stack = <<>> THEN runtime_error(v1, "StackUnderflow")
             ELSE LET left == Top(v1)
                      v2 == pop(v1)
                  IN  IF left = IntMin /\ right = 0 - 1
                      THEN HostPanic(v2)
                      ELSE IF op = "Divide"
                      THEN Continue(push(v2, TruncDiv(left, right)))
                      ELSE Continue(push(v2, TruncRem(left, right)))

\* Push (lines 78-81)
ExecPush(v, idx) ==
    IF idx >= Len(program.constants)
    THEN HostPanic(v)
    ELSE Continue(push(v, get_const(program, idx)))

\* Dup (lines 82-85)
ExecDup(v) ==
    IF v.stack = <<>> THEN runtime_error(v, "StackUnderflow")
    ELSE Continue(push(v, Top(v)))

\* Copy (lines 86-95): idx is cast to usize; len - 1 - idx below zero panics
\* with overflow checks and wraps to an index past the end without them
ExecCopy(v, n, checks) ==
    LET idx == WrapU(n)
        len == Len(v.stack)
    IN  IF len < idx THEN runtime_error(v, "StackUnderflow")
        ELSE IF len - 1 - idx < 0 /\ checks THEN HostPanic(v)
        ELSE LET at == WrapU(len - 1 - idx)
             IN  IF at >= len THEN HostPanic(v)
                 ELSE Continue(push(v, v.stack[at + 1]))

\* Swap (lines 96-104)
ExecSwap(v) ==
    LET len == Len(v.stack)
    IN  IF len < 2 THEN runtime_error(v, "StackUnderflow")
        ELSE Continue([v EXCEPT !.stack[len] = v.stack[len - 1],
                                !.stack[len - 1] = v.stack[len]])

\* Pop (lines 105-107)
ExecPop(v) ==
    IF v.stack = <<>> THEN runtime_error(v, "StackUnderflow")
    ELSE Continue(pop(v))

\* Vec::truncate
Truncate(seq, len) == IF len >= Len(seq) THEN seq ELSE SubSeq(seq, 1, len)

\* Slide (lines 108-118): idx is cast to usize; idx + 1 and len - idx panic
\* out of range with overflow checks and wrap without them
ExecSlide(v, n, checks) ==
    LET idx == WrapU(n)
    IN  IF ~InU(idx + 1) /\ checks THEN HostPanic(v)
        ELSE IF Len(v.stack) < WrapU(idx + 1) THEN runtime_error(v, "StackUnderflow")
        ELSE IF v.stack = <<>> THEN runtime_error(v, "StackUnderflow")
        ELSE LET lastv == Top(v)
                 v1 == pop(v)
                 new_len == Len(v1.stack) - idx
             IN  IF ~InU(new_len) /\ checks THEN HostPanic(v1)
                 ELSE Continue(push([v1 EXCEPT !.stack =
                                        Truncate(v1.stack, WrapU(new_len))], lastv))

\* a Store that takes the address from the top and the value below it
ExecStoreSwapped(v) ==
    IF Len(v.stack) < 2 THEN runtime_error(v, "StackUnderflow")
    ELSE Continue([v EXCEPT !.stack = SubSeq(v.stack, 1, Len(v.stack) - 2),
                            !.heap = MapInsert(v.heap, v.stack[Len(v.stack)],
                                               v.stack[Len(v.stack) - 1])])

\* Store (lines 157-161)
ExecStore(v) ==
    IF v.stack = <<>> THEN runtime_error(v, "StackUnderflow")
    ELSE LET value == Top(v)
             v1 == pop(v)
         IN  IF v1.stack = <<>> THEN runtime_error(v1, "StackUnderflow")
             ELSE LET addr == Top(v1)
                      v2 == pop(v1)
                  IN  Continue([v2 EXCEPT !.heap = MapInsert(v2.heap, addr, value)])

\* Retrieve (lines 162-169)
ExecRetrieve(v) ==
    IF v.stack = <<>> THEN runtime_error(v, "StackUnderflow")
    ELSE LET addr == Top(v)
             v1 == pop(v)
         IN  IF MapGet(v1.heap, addr) = None
             THEN runtime_error(v1, "InvalidHeapEntry")
             ELSE Continue(push(v1, MapGet(v1.heap, addr)[1]))

\* a Call that moves the current frame and pushes none
ExecCallNoFrame(v, pc) == Continue(SetPc(v, pc))

\* Call (lines 170-174): get_label(pc).unwrap() panics on None
ExecCall(v, pc) ==
    IF get_label_of(program, pc) = None
    THEN HostPanic(v)
    ELSE Continue([v EXCEPT !.call_stack =
                      Append(v.call_stack,
                             CallFrameNew(pc, get_label_of(program, pc)[1]))])

\* Jump (lines 175-177)
ExecJump(v, pc) == Continue(SetPc(v, pc))

\* a JumpIfNeg that also jumps on zero
ExecJumpIfNonPositive(v, op, pc) ==
    IF v.stack = <<>> THEN runtime_error(v, "StackUnderflow")
    ELSE LET cond == Top(v)
             v1 == pop(v)
         IN  IF (op = "JumpIfZero" /\ cond = 0) \/ (op = "JumpIfNeg" /\ cond <= 0)
             THEN Continue(SetPc(v1, pc))
             ELSE Continue(v1)

\* JumpIfZero, JumpIfNeg (lines 178-189)
ExecJumpIf(v, op, pc) ==
    IF v.stack = <<>> THEN runtime_error(v, "StackUnderflow")
    ELSE LET cond == Top(v)
             v1 == pop(v)
         IN  IF (op = "JumpIfZero" /\ cond = 0) \/ (op = "JumpIfNeg" /\ cond < 0)
             THEN Continue(SetPc(v1, pc))
             ELSE Continue(v1)

\* a Return that goes on after it has popped the last frame
ExecReturnOn(v) ==
    Continue([v EXCEPT !.call_stack = SubSeq(v.call_stack, 1, Len(v.call_stack) - 1)])

\* Return (lines 190-195)
ExecReturn(v) ==
    LET v1 == [v EXCEPT !.call_stack = SubSeq(v.call_stack, 1, Len(v.call_stack) - 1)]
    IN  IF v1.call_stack = <<>> THEN Halt(v1) ELSE Continue(v1)

\* End (lines 196-198)
ExecEnd(v) == Halt(v)

----------------------------------------------------------------------------
(* VM: input and output *)

\* width of a byte of the input and output streams, scaled with the integers
\* so that i64::from(u8) is lossless and `as u8` truncates
ByteMod == Pow2(IntBits - 1)

\* what the standard streams do at one instruction: the operation succeeds
\* (reading byte or line), it returns an error, or print! panics
IoOk(byte, line) == [kind |-> "ok", byte |-> byte, line |-> line]
IoErr   == [kind |-> "err", byte |-> 0, line |-> <<>>]
IoPanic == [kind |-> "panic", byte |-> 0, line |-> <<>>]

InputBytes == {0, 1, ByteMod - 1}
InputLines ==
    { <<>>, <<"5", "\n">>, <<"-", "2", " ", "\n">>, <<"a", "b", "\n">>,
      <<"9", "9", "\n">> }

IoChoices(op) ==
    CASE op \in {"OutputChar", "OutputNum"} -> {IoOk(0, <<>>), IoErr, IoPanic}
      [] op = "ReadChar" -> {IoOk(b, <<>>) : b \in InputBytes} \cup {IoErr}
      [] OTHER -> {IoOk(0, l) : l \in InputLines} \cup {IoErr}

\* the decimal digits of a natural number, as code points
RECURSIVE Digits(_)
Digits(n) == IF n < 10 THEN <<48 + n>> ELSE Append(Digits(n \div 10), 48 + (n % 10))

\* Display for i64 (print!("{}", num))
Decimal(n) == IF n < 0 THEN <<45>> \o Digits(0 - n) ELSE Digits(n)

\* str::trim_end
RECURSIVE TrimEnd(_)
TrimEnd(line) ==
    IF line # <<>> /\ line[Len(line)] \in {" ", "\n", "\t", "\r"}
    THEN TrimEnd(SubSeq(line, 1, Len(line) - 1))
    ELSE line

DigitChars == {"0", "1", "2", "3", "4", "5", "6", "7", "8", "9"}
DigitVal(ch) ==
    CASE ch = "0" -> 0 [] ch = "1" -> 1 [] ch = "2" -> 2 [] ch = "3" -> 3
      [] ch = "4" -> 4 [] ch = "5" -> 5 [] ch = "6" -> 6 [] ch = "7" -> 7
      [] ch = "8" -> 8 [] OTHER -> 9

RECURSIVE Magnitude(_)
Magnitude(ds) ==
    IF ds = <<>> THEN 0
    ELSE 10 * Magnitude(SubSeq(ds, 1, Len(ds) - 1)) + DigitVal(ds[Len(ds)])

\* str::parse::<i64>: an optional sign and at least one digit, in range
ParseI64(text) ==
    LET signed == text # <<>> /\ text[1] \in {"+", "-"}
        ds == IF signed THEN Tail(text) ELSE text
        value == IF signed /\ text[1] = "-" THEN 0 - Magnitude(ds) ELSE Magnitude(ds)
    IN  IF ds = <<>> \/ (\E i \in 1..Len(ds) : ds[i] \notin DigitChars) \/ ~InI(value)
        THEN None
        ELSE Some(value)

\* OutputChar (lines 199-205)
ExecOutputChar(v, io) ==
    IF v.stack = <<>> THEN runtime_error(v, "StackUnderflow")
    ELSE LET c == Top(v) % ByteMod
             v1 == pop(v)
         IN  CASE io.kind = "panic" -> HostPanic(v1)
               [] io.kind = "err"   -> runtime_error(v1, "IoError")
               [] OTHER -> Continue([v1 EXCEPT !.output = Append(v1.output, c)])

\* OutputNum (lines 206-212)
ExecOutputNum(v, io) ==
    IF v.stack = <<>> THEN runtime_error(v, "StackUnderflow")
    ELSE LET num == Top(v)
             v1 == pop(v)
         IN  CASE io.kind = "panic" -> HostPanic(v1)
               [] io.kind = "err"   -> runtime_error(v1, "IoError")
               [] OTHER -> Continue([v1 EXCEPT !.output = v1.output \o Decimal(num)])

\* ReadChar (lines 213-221)
ExecReadChar(v, io) ==
    IF v.stack = <<>> THEN runtime_error(v, "StackUnderflow")
    ELSE LET addr == Top(v)
             v1 == pop(v)
         IN  IF io.kind # "ok" THEN runtime_error(v1, "IoError")
             ELSE Continue([v1 EXCEPT !.heap = MapInsert(v1.heap, addr, io.byte)])

\* ReadNum (lines 222-237)
ExecReadNum(v, io) ==
    IF v.stack = <<>> THEN runtime_error(v, "StackUnderflow")
    ELSE LET addr == Top(v)
             v1 == pop(v)
         IN  IF io.kind # "ok" THEN runtime_error(v1, "IoError")
             ELSE LET num == ParseI64(TrimEnd(io.line))
                  IN  IF num = None THEN runtime_error(v1, "NumParseError")
                      ELSE Continue([v1 EXCEPT !.heap = MapInsert(v1.heap, addr, num[1])])

----------------------------------------------------------------------------
(* Vm::run, one iteration of its loop per action *)

StackOps == {"Push", "Dup", "Copy", "Swap", "Pop", "Slide"}
ArithOps == {"Add", "Subtract", "Multiply", "Divide", "Modulo"}
HeapOps  == {"Store", "Retrieve"}
FlowOps  == {"Call", "Jump", "JumpIfZero", "JumpIfNeg", "Return", "End"}
IoOps    == {"OutputChar", "OutputNum", "ReadChar", "ReadNum"}

\* line 73: the pc of the top frame
FetchPc == call_stack[Len(call_stack)].pc
\* line 74: Program::inst_at is a Vec index and panics at pc >= len
FetchFaults == FetchPc >= Len(program.instructions)
Fetched == program.instructions[FetchPc + 1]
\* line 75: the Vm once the pc of the top frame is advanced
Advanced == SetPc(VmState(stack, call_stack, heap, output), FetchPc + 1)

Fetching(ops) ==
    /\ phase = "running"
    /\ steps < MaxSteps
    /\ ~FetchFaults
    /\ Fetched.op \in ops

\* the record of the writes of the run, after an iteration that fetched op
\* and ended in status: a Store on two operands writes its top operand at
\* the address below it, a ReadChar or ReadNum that succeeds writes at the
\* address on top
Written(op, status) ==
    CASE op = "Store" /\ Len(stack) >= 2 ->
           MapInsert(writes, stack[Len(stack) - 1],
                     [by |-> op, val |-> stack[Len(stack)]])
      [] op \in {"ReadChar", "ReadNum"} /\ Len(stack) >= 1 /\ status = "running" ->
           MapInsert(writes, stack[Len(stack)], [by |-> op, val |-> 0])
      [] OTHER -> writes

\* the Calls of the live frames, after an iteration that fetched inst at pc
\* and ended in status
Callers(inst, pc, status) ==
    CASE inst.op = "Call" /\ status = "running" ->
           Append(callers, [at |-> pc, frames |-> call_stack])
      [] inst.op = "Return" /\ callers # <<>> -> SubSeq(callers, 1, Len(callers) - 1)
      [] OTHER -> callers

\* the state the iteration leaves
Commit(o) ==
    /\ phase' = o.status
    /\ stack' = o.v.stack
    /\ call_stack' = o.v.call_stack
    /\ heap' = o.v.heap
    /\ output' = o.v.output
    /\ traceback' = o.traceback
    /\ last' = Some([inst |-> Fetched, stack |-> stack, heap |-> heap,
                     call_stack |-> call_stack, writes |-> writes,
                     callers |-> callers])
    /\ writes' = Written(Fetched.op, o.status)
    /\ callers' = Callers(Fetched, FetchPc, o.status)
    /\ steps' = steps + 1
    /\ UNCHANGED <<stmts, src>>
    /\ UNCHANGED parserVars

ExecStack(v, inst, checks) ==
    CASE inst.op = "Push"  -> ExecPush(v, inst.arg)
      [] inst.op = "Dup"   -> ExecDup(v)
      [] inst.op = "Copy"  -> ExecCopy(v, inst.arg, checks)
      [] inst.op = "Swap"  -> ExecSwap(v)
      [] inst.op = "Pop"   -> ExecPop(v)
      [] OTHER             -> ExecSlide(v, inst.arg, checks)

ExecArithmetic(v, inst, checks) ==
    IF inst.op \in {"Divide", "Modulo"}
    THEN ExecDivMod(v, inst.op)
    ELSE ExecArith(v, inst.op, checks)

ExecHeap(v, inst) ==
    IF inst.op = "Store" THEN ExecStore(v) ELSE ExecRetrieve(v)

ExecFlow(v, inst) ==
    CASE inst.op = "Call"   -> ExecCall(v, inst.arg)
      [] inst.op = "Jump"   -> ExecJump(v, inst.arg)
      [] inst.op = "Return" -> ExecReturn(v)
      [] inst.op = "End"    -> ExecEnd(v)
      [] OTHER              -> ExecJumpIf(v, inst.op, inst.arg)

ExecIo(v, inst, io) ==
    CASE inst.op = "OutputChar" -> ExecOutputChar(v, io)
      [] inst.op = "OutputNum"  -> ExecOutputNum(v, io)
      [] inst.op = "ReadChar"   -> ExecReadChar(v, io)
      [] OTHER                  -> ExecReadNum(v, io)

\* a run_source that runs whatever the parser has built when it stops
VmStartUnchecked ==
    /\ phase \in {"parsed", "parse_error"}
    /\ phase' = "running"
    /\ stack' = <<>>
    /\ heap' = EmptyMap
    /\ call_stack' = <<CallFrameNewMain>>
    /\ UNCHANGED <<stmts, src, output, traceback, last, writes, steps, callers,
                   overflow_checks>>
    /\ UNCHANGED parserVars

\* run_source, lines 48-49: Vm::new, and run pushes the main frame
VmStart ==
    /\ phase = "parsed"
    /\ phase' = "running"
    /\ stack' = <<>>
    /\ heap' = EmptyMap
    /\ call_stack' = <<CallFrameNewMain>>
    /\ UNCHANGED <<stmts, src, output, traceback, last, writes, steps, callers,
                   overflow_checks>>
    /\ UNCHANGED parserVars

\* the fetch of line 74 is out of the instruction list
VmFetchFault ==
    /\ phase = "running"
    /\ steps < MaxSteps
    /\ FetchFaults
    /\ phase' = "panic"
    /\ last' = None
    /\ steps' = steps + 1
    /\ UNCHANGED <<stmts, src, stack, call_stack, heap, output, traceback, writes,
                   callers, overflow_checks>>
    /\ UNCHANGED parserVars

VmStackInst ==
    /\ Fetching(StackOps)
    /\ \E checks \in Builds :
         /\ Commit(ExecStack(Advanced, Fetched, checks))
         /\ overflow_checks' =
              BuildAfter(ExecStack(Advanced, Fetched, TRUE)
                           # ExecStack(Advanced, Fetched, FALSE), checks)

VmArithInst ==
    /\ Fetching(ArithOps)
    /\ \E checks \in Builds :
         /\ Commit(ExecArithmetic(Advanced, Fetched, checks))
         /\ overflow_checks' =
              BuildAfter(ExecArithmetic(Advanced, Fetched, TRUE)
                           # ExecArithmetic(Advanced, Fetched, FALSE), checks)

VmHeapInst ==
    /\ Fetching(HeapOps)
    /\ Commit(ExecHeap(Advanced, Fetched))
    /\ UNCHANGED overflow_checks

VmFlowInst ==
    /\ Fetching(FlowOps)
    /\ Commit(ExecFlow(Advanced, Fetched))
    /\ UNCHANGED overflow_checks

VmIoInst ==
    /\ Fetching(IoOps)
    /\ \E io \in IoChoices(Fetched.op) : Commit(ExecIo(Advanced, Fetched, io))
    /\ UNCHANGED overflow_checks

Next ==
    \/ ParseBegin
    \/ ParseStackInst
    \/ ParseArithInst
    \/ ParseHeapInst
    \/ ParseIoInst
    \/ ParseUnknownInst
    \/ ParseFlowInst
    \/ ParseEof
    \/ PatchJump
    \/ PatchDone
    \/ VmStart
    \/ VmFetchFault
    \/ VmStackInst
    \/ VmArithInst
    \/ VmHeapInst
    \/ VmFlowInst
    \/ VmIoInst

----------------------------------------------------------------------------
(* Inputs *)

Plus(op, bits)  == Stmt(op, FALSE, bits)
Minus(op, bits) == Stmt(op, TRUE, bits)
Op(op)          == Stmt(op, FALSE, <<>>)

\* statements of the sources given to the parser alone
ParseLib ==
    { Plus("Label", <<0>>), Plus("Label", <<1>>),
      Plus("Call", <<0>>), Plus("Call", <<1>>),
      Plus("Jump", <<0>>), Plus("JumpIfZero", <<1>>), Plus("JumpIfNeg", <<0>>),
      Plus("Push", <<1>>), Plus("Push", <<0, 1>>), Minus("Push", <<>>) }

\* sources whose tokens are Tab Tab Tab Space, without and with bytes that
\* are no tokens
HeapSuffixSources ==
    { <<Stmt("Raw", FALSE, <<1, 1, 1, 0>>)>>,
      <<Stmt("Raw", FALSE, <<3, 1, 1, 3, 1, 0, 3>>)>> }

\* sources whose tokens are Tab Tab
HeapPrefixSources ==
    { <<Stmt("Raw", FALSE, <<1, 1>>)>>,
      <<Stmt("Raw", FALSE, <<1, 3, 1, 3>>)>> }

\* sources that copy and slide by a count written with either sign
CountSamples ==
    { <<Plus("Push", <<1>>), Stmt(op, neg, bits), Op("End")>> :
      op \in {"Copy", "Slide"}, neg \in BOOLEAN, bits \in {<<>>, <<1>>, <<1, 0>>} }

\* sources that reach the remaining branches of parse
ParseSamples ==
    { <<Op("Add"), Op("Store"), Op("OutputNum"), Op("End")>>,
      <<Op("Retrieve"), Stmt("Raw", FALSE, <<3, 1>>)>> }
    \cup HeapSuffixSources \cup HeapPrefixSources \cup CountSamples

ParseInputs == Sources(ParseLib, MaxParseStmts) \cup ParseSamples

InitParse == InitParser(ParseInputs)

\* statements of the sources given to run_source
RunLib ==
    { Plus("Push", <<1>>), Minus("Push", <<>>), Minus("Push", <<1>>),
      Op("Dup"), Plus("Copy", <<>>), Plus("Copy", <<1>>), Op("Swap"), Op("Pop"),
      Plus("Slide", <<1>>),
      Op("Add"), Op("Subtract"), Op("Multiply"), Op("Divide"), Op("Modulo"),
      Op("Store"), Op("Retrieve"),
      Plus("Label", <<0>>), Plus("Call", <<0>>), Plus("Jump", <<0>>),
      Plus("JumpIfZero", <<0>>), Plus("JumpIfNeg", <<0>>), Op("Return"), Op("End"),
      Op("OutputChar"), Op("OutputNum"), Op("ReadChar"), Op("ReadNum") }

\* the binary digits of a natural number, the most significant first
RECURSIVE BitsOf(_)
BitsOf(n) == IF n = 0 THEN <<>> ELSE Append(BitsOf(n \div 2), n % 2)

\* the Push of the literal n: its sign and the digits of its magnitude
PushOf(n) == Stmt("Push", n < 0, BitsOf(Abs(n)))

\* what may run between a Store and a Retrieve
Between ==
    { <<>>,
      <<Plus("Jump", <<0>>), Op("Pop"), Plus("Label", <<0>>)>>,
      <<Plus("Jump", <<1>>), Plus("Label", <<0>>), Op("Return"),
        Plus("Label", <<1>>), Plus("Call", <<0>>)>> }
    \cup {<<PushOf(c), PushOf(w), Op("Store")>> : c \in {0, 1}, w \in {0, 1}}
    \cup {<<PushOf(c), Op(rd)>> : c \in {0, 1}, rd \in {"ReadChar", "ReadNum"}}

\* sources that store, run something else, and retrieve
HeapSamples ==
    { <<PushOf(a), PushOf(v), Op("Store")>> \o mid
        \o <<PushOf(b), Op("Retrieve"), Op("OutputNum"), Op("End")>> :
      a \in {0, 1}, v \in {0 - 1, 1}, b \in {0, 1}, mid \in Between }

\* sources that run each statement on a stack of one and of two pushed
\* values, and not as the last instruction
OperandSamples ==
    { <<PushOf(x), st, Op("End")>> : x \in {0 - 1, 0, 1}, st \in RunLib }
    \cup { <<PushOf(x), PushOf(y), st, Op("End")>> :
              x \in {0 - 1, 0, 1}, y \in {0 - 1, 0, 1}, st \in RunLib }

\* the two sources of the first end-to-end scenario: as the specification
\* writes it, and the encoding of push 1; output number; end
ScenarioOneAsWritten == Stmt("Raw", FALSE, <<0, 0, 0, 2, 0, 2, 1, 2, 0, 0, 2, 2>>)
ScenarioOneEncoded == Stmt("Raw", FALSE, <<0, 0, 0, 1, 2, 1, 2, 0, 1, 2, 2, 2>>)

\* push 10; push 0; divide, as the whole program and with instructions after
DivideByZeroSources ==
    { <<PushOf(10), PushOf(0), Op("Divide")>> \o rest :
      rest \in {<<>>, <<Op("End")>>, <<Op("OutputNum"), Op("End")>>} }

\* bit strings around the width of the integers: the longest of ones that
\* fits, the same after a leading zero, a one at and past the sign bit
Ones(n) == [i \in 1..n |-> 1]
HighBit(n) == [i \in 1..n |-> IF i = 1 THEN 1 ELSE 0]
LongBits ==
    { Ones(IntBits - 1), <<0>> \o Ones(IntBits - 1), HighBit(IntBits),
      Ones(IntBits), HighBit(IntBits + 1), <<1>> \o Ones(IntBits) }

\* sources that push a literal of such bits and print it
LiteralSamples ==
    { <<Stmt("Push", neg, bits), Op("OutputNum"), Op("End")>> :
      neg \in BOOLEAN, bits \in LongBits }

\* sources that run each arithmetic instruction on each pair of integers
ArithSamples ==
    { <<PushOf(x), PushOf(y), Op(op), Op("End")>> :
      x \in IntMin..IntMax, y \in IntMin..IntMax, op \in ArithOps }

\* sources that compute the least integer and divide it by -1
LeastSamples ==
    { <<PushOf(0 - IntMax), PushOf(1), Op("Subtract"), PushOf(0 - 1), Op(op),
        Op("End")>> : op \in {"Divide", "Modulo"} }

\* sources that fail with frames on the call stack: nested calls of two
\* subroutines, two labels at one instruction, a recursion, a failure after
\* the return, a return from the top-level frame after a call, two calls
\* that return to two labels at one instruction, returns from nested calls,
\* a label declared twice
TraceSamples ==
    { <<Plus("Call", <<0>>), Op("End"), Plus("Label", <<0>>), Plus("Call", <<1>>),
        Op("Return"), Plus("Label", <<1>>), Op("Pop"), Op("Return")>>,
      <<Plus("Call", <<0>>), Plus("Call", <<1>>), Op("End"), Plus("Label", <<0>>),
        Plus("Label", <<1>>), Op("Pop"), Op("Return")>>,
      <<PushOf(1), PushOf(1), Plus("Label", <<0>>), Op("Pop"), Plus("Call", <<0>>),
        Op("End")>>,
      <<Plus("Call", <<0>>), Op("Pop"), Op("End"), Plus("Label", <<0>>), Op("Return")>>,
      <<Plus("Call", <<0>>), Op("Return"), Plus("Label", <<0>>), Op("Return")>>,
      <<Plus("Call", <<0>>), Plus("Call", <<1>>), Op("End"),
        Plus("Label", <<0>>), Plus("Label", <<1>>), Op("Return")>>,
      <<PushOf(1), Plus("Call", <<0>>), Op("End"), Plus("Label", <<0>>),
        Plus("Call", <<1>>), Op("Return"), Plus("Label", <<1>>), Op("Return")>>,
      <<Plus("Call", <<0>>), Op("End"), Plus("Label", <<0>>), Op("Return"),
        Plus("Label", <<0>>), Op("Pop"), Op("Return")>> }

\* label bit strings around the width of the index type: short ones, the
\* longest of ones that fits, a one past the width before zeros and before
\* a final one
LabelBits ==
    { <<0>>, <<1>>, Ones(IntBits), HighBit(IntBits + 1),
      Append(HighBit(IntBits), 1) }

\* sources that jump over a Pop to a label, each written with such bits
LabelSamples ==
    { <<Plus("Jump", b), Op("Pop"), Plus("Label", a), Op("End")>> :
      a \in LabelBits, b \in LabelBits }

\* sources that jump, in the top-level frame and in a subroutine with an
\* entry in the heap, over a negative, a zero and a positive value, to a
\* label that is not the next instruction
JumpSamples ==
    { <<PushOf(2), PushOf(x), Plus(op, <<0>>), PushOf(1), Plus("Label", <<0>>),
        Op("End")>> :
      x \in {0 - 1, 0, 1}, op \in {"Jump", "JumpIfZero", "JumpIfNeg"} }
    \cup
    { <<PushOf(1), PushOf(1), Op("Store"), Plus("Call", <<1>>), Op("End"),
        Plus("Label", <<1>>), PushOf(2), PushOf(x), Plus(op, <<0>>), Op("Pop"),
        Plus("Label", <<0>>), Op("Return")>> :
      x \in {0 - 1, 0, 1}, op \in {"Jump", "JumpIfZero", "JumpIfNeg"} }

RunSamples ==
    HeapSamples \cup OperandSamples \cup ParseSamples
        \cup {<<ScenarioOneAsWritten>>, <<ScenarioOneEncoded>>}
        \cup DivideByZeroSources \cup LiteralSamples \cup ArithSamples
        \cup LeastSamples \cup TraceSamples \cup LabelSamples \cup JumpSamples

RunInputs == Sources(RunLib, MaxRunStmts) \cup RunSamples

Init == InitParser(RunInputs)

\* run_source
Spec == Init /\ [][Next]_vars

\* Parser::parse on its own
SpecParse == InitParse /\ [][NextParse]_vars

----------------------------------------------------------------------------
(* The source as written: what each statement of stmts says, read off the    *)
(* statement list and not off the parser                                     *)

\* statements that stand for one instruction
IsInstStmt(st) == st.op \notin {"Label", "Raw"}
IsJumpStmt(st) == IsJump(st.op)
NoRaw == \A k \in 1..Len(stmts) : stmts[k].op # "Raw"

\* number of instructions written before statement k
InstsBefore(k) == Cardinality({j \in 1..(k - 1) : IsInstStmt(stmts[j])})
NumInsts == InstsBefore(Len(stmts) + 1)

\* the value a bit string denotes
RECURSIVE BitsValue(_)
BitsValue(bits) ==
    IF bits = <<>> THEN 0
    ELSE 2 * BitsValue(SubSeq(bits, 1, Len(bits) - 1)) + bits[Len(bits)]
LiteralValue(st) == IF st.neg THEN 0 - BitsValue(st.bits) ELSE BitsValue(st.bits)

\* the declarations of the label that statement k names
DeclsOf(k) ==
    {d \in 1..Len(stmts) :
        stmts[d].op = "Label" /\ BitsValue(stmts[d].bits) = BitsValue(stmts[k].bits)}
LastDeclOf(k) == CHOOSE d \in DeclsOf(k) : \A e \in DeclsOf(k) : e <= d

\* the source line of the first and of the last byte of statement k
NewlinesIn(bytes) == Cardinality({i \in 1..Len(bytes) : bytes[i] = "\n"})
FirstLine(k) == 1 + NewlinesIn(Encode(SubSeq(stmts, 1, k - 1)))
LastLine(k) ==
    LET upto == Encode(SubSeq(stmts, 1, k))
    IN  1 + NewlinesIn(SubSeq(upto, 1, Len(upto) - 1))

\* the instruction emitted for statement k, once it is parsed
InstOf(k) == program.instructions[InstsBefore(k) + 1]

\* the jump statements of the source
JumpStmts == {k \in 1..Len(stmts) : IsJumpStmt(stmts[k])}
Undeclared == {k \in JumpStmts : DeclsOf(k) = {}}

----------------------------------------------------------------------------
(* Claims about the parser *)

\* C1: in every successfully parsed program each Call, Jump, JumpIfZero and
\* JumpIfNeg keeps its opcode and has as target the instruction count at a
\* declaration of the label it names, for forward and backward references
C1_TargetsResolved ==
    (phase = "parsed" /\ NoRaw) =>
        /\ Len(program.instructions) = NumInsts
        /\ \A k \in JumpStmts :
             /\ InstOf(k).op = stmts[k].op
             /\ \E d \in DeclsOf(k) : InstOf(k).arg = InstsBefore(d)

\* a parsed source with a forward and a backward reference to a label that is
\* declared at a pc other than the placeholder
C1_Witness ==
    /\ phase = "parsed" /\ NoRaw
    /\ \E k1, k2 \in JumpStmts :
         /\ stmts[k1].bits = stmts[k2].bits
         /\ \E d \in DeclsOf(k1) : k1 < d /\ d < k2 /\ InstsBefore(d) > 1
         /\ InstOf(k1).arg # UNINITIALIZED_JUMP_TARGET

\* C2: a reference to a label that is declared nowhere makes parse fail with
\* InvalidLabel, and the line of the error is a line on which the
\* referencing instruction is written
C2_InvalidLabelLine ==
    (NoRaw /\ Undeclared # {} /\ phase \in {"parsed", "parse_error"}) =>
        /\ phase = "parse_error"
        /\ parse_error[1].kind = "InvalidLabel"
        /\ \E k \in Undeclared :
             /\ parse_error[1].line_no >= FirstLine(k)
             /\ parse_error[1].line_no <= LastLine(k)

\* a reference to a label that is declared nowhere makes parse fail with
\* InvalidLabel (the line of the error left aside)
InvalidLabelKind ==
    (NoRaw /\ Undeclared # {} /\ phase \in {"parsed", "parse_error"}) =>
        /\ phase = "parse_error"
        /\ parse_error[1].kind = "InvalidLabel"

\* no value is in the constant pool twice
PoolUnique ==
    \A i, j \in 1..Len(program.constants) :
        program.constants[i] = program.constants[j] => i = j
\* every Push emitted so far indexes the pool entry equal to its literal
PushesInterned ==
    NoRaw =>
        \A k \in 1..Len(stmts) :
            (stmts[k].op = "Push" /\ InstsBefore(k) < Len(program.instructions)) =>
                /\ InstOf(k).op = "Push"
                /\ InstOf(k).arg < Len(program.constants)
                /\ program.constants[InstOf(k).arg + 1] = LiteralValue(stmts[k])
\* a step of the parser leaves every entry of the pool at its index
PoolStable ==
    /\ Len(program.constants') >= Len(program.constants)
    /\ \A i \in 1..Len(program.constants) :
           program.constants'[i] = program.constants[i]
\* C8: after any sequence of literals parsed, the constant pool holds no
\* value twice, every Push emitted so far indexes the pool entry equal to
\* the literal it was parsed from, and no entry of the pool ever moves
C8_ConstantPool == [](PoolUnique /\ PushesInterned) /\ [][PoolStable]_vars

\* three literals are parsed, two of them of the same value, and the pool
\* holds two entries
C8_Witness ==
    /\ NoRaw
    /\ Len(program.constants) = 2
    /\ \E k1, k2, k3 \in 1..Len(program.instructions) :
         /\ k1 < k2 /\ k2 < k3
         /\ program.instructions[k1] = Inst("Push", 0)
         /\ program.instructions[k2] = Inst("Push", 1)
         /\ program.instructions[k3] = Inst("Push", 0)

\* C9: a source that declares a label more than once still parses, and every
\* reference to the label has the instruction count at its last declaration
\* as target
C9_LastDeclarationWins ==
    (NoRaw /\ Undeclared = {}) =>
        /\ phase \notin {"parse_error", "panic"}
        /\ phase = "parsed" =>
             \A k \in JumpStmts : InstOf(k).arg = InstsBefore(LastDeclOf(k))

\* a label declared twice at different instruction counts, referenced before
\* the first declaration and after it
C9_Witness ==
    /\ phase = "parsed" /\ NoRaw
    /\ \E k1, k2 \in JumpStmts, d1, d2 \in 1..Len(stmts) :
         /\ d1 \in DeclsOf(k1) /\ d2 \in DeclsOf(k1) /\ d1 < d2
         /\ stmts[k1].bits = stmts[k2].bits
         /\ InstsBefore(d1) # InstsBefore(d2)
         /\ k1 < d1 /\ d1 < k2

----------------------------------------------------------------------------
(* Claims about the VM *)

\* the latest iteration of the VM
Ran == last # None
LastInst == last[1].inst
LastStack == last[1].stack
LastTop == LastStack[Len(LastStack)]
FailedWith(reason) == phase = "traceback" /\ traceback[1].reason = reason

\* the number of operands an instruction takes from the stack
Need(inst) ==
    CASE inst.op \in {"Swap", "Add", "Subtract", "Multiply", "Divide", "Modulo",
                      "Store"} -> 2
      [] inst.op \in {"Copy", "Slide"} -> inst.arg + 1
      [] inst.op \in {"Dup", "Pop", "Retrieve", "JumpIfZero", "JumpIfNeg",
                      "OutputChar", "OutputNum", "ReadChar", "ReadNum"} -> 1
      [] OTHER -> 0

\* C3: an instruction run on a stack of fewer elements than it takes ends
\* the run with a traceback of reason StackUnderflow
C3_Underflow ==
    (Ran /\ LastInst.arg >= 0 /\ Len(LastStack) < Need(LastInst)) =>
        FailedWith("StackUnderflow")

\* C4: when an instruction fails, stack and heap are what they were before it
C4_NoPartialMutation ==
    phase = "traceback" => (stack = LastStack /\ heap = last[1].heap)

\* C5: Divide and Modulo with 0 on top of the stack end the run with a
\* traceback of reason ZeroDivision, never with a panic
C5_ZeroDivision ==
    (Ran /\ LastInst.op \in {"Divide", "Modulo"} /\ LastStack # <<>> /\ LastTop = 0) =>
        FailedWith("ZeroDivision")

\* C6: a Retrieve of an address whose latest write of the run is a Store
\* pushes the value of that Store in place of the address, whatever ran
\* since
C6_StoreRetrieve ==
    (Ran /\ LastInst.op = "Retrieve" /\ LastStack # <<>>
         /\ LastTop \in DOMAIN last[1].writes
         /\ last[1].writes[LastTop].by = "Store") =>
        /\ phase = "running"
        /\ stack = [LastStack EXCEPT ![Len(LastStack)] = last[1].writes[LastTop].val]

\* a Retrieve reads the 0 that a second Store put over the first value, with
\* another instruction sequence in between
C6_Witness ==
    /\ stmts \in HeapSamples
    /\ stmts[2] # PushOf(0)
    /\ Ran /\ LastInst.op = "Retrieve"
    /\ phase = "running"
    /\ stack = <<0>>
    /\ last[1].writes[LastTop] = [by |-> "Store", val |-> 0]

\* C7: a Retrieve of an address that nothing has written in the run ends it
\* with a traceback of reason InvalidHeapEntry
C7_AbsentEntry ==
    (Ran /\ LastInst.op = "Retrieve" /\ LastStack # <<>>
         /\ LastTop \notin DOMAIN last[1].writes) =>
        FailedWith("InvalidHeapEntry")

\* push 1; output number; end
ScenarioOneProgram ==
    [instructions |-> <<Inst("Push", 0), Inst("OutputNum", 0), Inst("End", 0)>>,
     constants |-> <<1>>]

\* what the first scenario says of a source: it parses into push 1; output
\* number; end, and the run prints "1" and ends normally
ScenarioOneHolds ==
    /\ phase # "parse_error"
    /\ phase \notin {"new", "parsing", "patching"} =>
         /\ program.instructions = ScenarioOneProgram.instructions
         /\ program.constants = ScenarioOneProgram.constants
    /\ phase = "halted" => output = <<49>>

\* C10 as stated: the source S S S L S L T L S S L L
C10_AsWritten == (stmts = <<ScenarioOneAsWritten>>) => ScenarioOneHolds

\* C10 amended: the source S S S T L T L S T L L L parses into push 1; output
\* number; end; the run ends normally having printed "1", unless writing to
\* standard output fails at the output instruction
C10_Encoded ==
    (stmts = <<ScenarioOneEncoded>>) =>
        /\ ScenarioOneHolds
        /\ phase \in {"traceback", "panic"} =>
             /\ LastInst.op = "OutputNum"
             /\ phase = "traceback" => traceback[1].reason = "IoError"

\* the run of the encoded source has ended normally and printed "1"
C10_Witness ==
    /\ stmts = <<ScenarioOneEncoded>>
    /\ phase = "halted"
    /\ output = <<49>>

----------------------------------------------------------------------------
(* Claims about the errors of the parser *)

\* parse has returned
ParseEnded == phase \notin {"new", "parsing", "patching"}
\* parse has returned the error of this kind, instruction type and line
ParseFailed(kind, inst_type, line_no) ==
    /\ phase = "parse_error"
    /\ parse_error[1] = ParseErr(kind, inst_type, line_no)

\* C11 as stated: a source whose tokens are Tab Tab Tab Space fails to parse
\* with InvalidInstruction(Heap) at line 1
C11_AsWritten ==
    (stmts \in HeapSuffixSources /\ ParseEnded) =>
        ParseFailed("InvalidInstruction", "Heap", 1)

\* C11 amended: a source whose tokens are Tab Tab Tab Space fails to parse
\* with UnexpectedEof at line 1, after Retrieve is emitted for Tab Tab Tab;
\* a source whose tokens are Tab Tab fails with InvalidInstruction(Heap) at
\* line 1
C11_HeapSuffix ==
    /\ (stmts \in HeapSuffixSources /\ ParseEnded) =>
          /\ ParseFailed("UnexpectedEof", "", 1)
          /\ program.instructions = <<Inst("Retrieve", 0)>>
    /\ (stmts \in HeapPrefixSources /\ ParseEnded) =>
          /\ ParseFailed("InvalidInstruction", "Heap", 1)
          /\ program.instructions = <<>>

\* parse of Tab Tab Tab Space, with other bytes around the tokens, has
\* failed
C11_Witness ==
    /\ stmts \in HeapSuffixSources
    /\ Len(src) > 4
    /\ phase = "parse_error"
    /\ parse_error[1].kind = "UnexpectedEof"

----------------------------------------------------------------------------
(* Claims about the traceback and the line numbers *)

\* Vm::run has returned or the process has ended in it
RunEnded == phase \in {"halted", "traceback", "panic"}

\* C12: the run of push 10; push 0; divide, with or without instructions
\* after the Divide, ends with a traceback of reason ZeroDivision whose only
\* entry is the top-level frame, without label; it never ends in a panic
C12_DivideByZero ==
    (stmts \in DivideByZeroSources /\ RunEnded) =>
        /\ FailedWith("ZeroDivision")
        /\ Len(traceback[1].stack) = 1
        /\ traceback[1].stack[1].label = None

\* C13: in a parsed program every instruction is stored with the source line
\* of the first token of its statement
C13_FirstTokenLine ==
    (phase = "parsed" /\ NoRaw) =>
        \A k \in 1..Len(stmts) :
            IsInstStmt(stmts[k]) =>
                program.line_nos[InstsBefore(k) + 1] = FirstLine(k)

----------------------------------------------------------------------------
(* Claims about the arithmetic of literals and of the VM *)

\* the statements of the source that carry a number literal
LiteralStmts == {k \in 1..Len(stmts) : stmts[k].op \in {"Push", "Copy", "Slide"}}
\* a literal whose bits put a 1 at or past the sign bit
Overlong(k) == BitsValue(stmts[k].bits) > IntMax

\* C14: a source with a literal whose bits do not fit the signed integer
\* fails to parse with LiteralOverflow, and every Push of a parsed literal
\* holds the value its sign and bits denote
C14_LiteralOverflow ==
    NoRaw =>
        /\ (ParseEnded /\ \E k \in LiteralStmts : Overlong(k)) =>
              /\ phase = "parse_error"
              /\ parse_error[1].kind = "LiteralOverflow"
        /\ PushesInterned

\* the operands an arithmetic instruction finds on a stack of two or more
LastLeft == LastStack[Len(LastStack) - 1]
LastRight == LastTop
LastBelow == SubSeq(LastStack, 1, Len(LastStack) - 2)

\* the exact result of Add, Subtract, Multiply
Exact(op, left, right) ==
    CASE op = "Add"      -> left + right
      [] op = "Subtract" -> left - right
      [] OTHER           -> left * right

\* C15: Add, Subtract and Multiply on two or more elements replace the two
\* on top by left op right reduced into the signed range, and the run goes
\* on, whatever the operands
C15_WrappingArith ==
    (Ran /\ LastInst.op \in {"Add", "Subtract", "Multiply"} /\ Len(LastStack) >= 2) =>
        /\ phase = "running"
        /\ stack = Append(LastBelow, WrapI(Exact(LastInst.op, LastLeft, LastRight)))

----------------------------------------------------------------------------
(* Claims about the call frames *)

\* the statement of the instruction at index idx
StmtAt(idx) ==
    CHOOSE k \in 1..Len(stmts) : IsInstStmt(stmts[k]) /\ InstsBefore(k) = idx
\* the labels whose declaration in force is at instruction count pc
LabelsAt(pc) ==
    { BitsValue(stmts[d].bits) :
      d \in {e \in 1..Len(stmts) :
                /\ stmts[e].op = "Label"
                /\ LastDeclOf(e) = e
                /\ InstsBefore(e) = pc} }
\* the instruction count a Call statement names: that of the declaration in
\* force of its label
TargetOf(k) == InstsBefore(LastDeclOf(k))

\* C16: a traceback has one entry per live frame, the first without label
\* for the top-level frame, then one per Call that has not returned, in the
\* order of the Calls, each with a label of the subroutine that its Call names
C16_TracebackFrames ==
    (phase = "traceback" /\ NoRaw) =>
        LET tb == traceback[1].stack
        IN  /\ Len(tb) = Len(call_stack)
            /\ Len(tb) = Len(callers) + 1
            /\ tb[1].label = None
            /\ \A i \in 2..Len(tb) :
                 /\ tb[i].label # None
                 /\ stmts[StmtAt(callers[i - 1].at)].op = "Call"
                 /\ tb[i].label[1] \in LabelsAt(TargetOf(StmtAt(callers[i - 1].at)))

\* a traceback of three entries: the top-level frame and two frames of
\* different labels
C16_Witness ==
    /\ phase = "traceback" /\ NoRaw
    /\ Len(traceback[1].stack) = 3
    /\ traceback[1].stack[1].label = None
    /\ traceback[1].stack[2].label = Some(0)
    /\ traceback[1].stack[3].label = Some(1)

\* Vm::run has been entered
VmEntered == phase = "running" \/ steps > 0

\* C17: while instructions are fetched the call stack is not empty and its
\* bottom frame is the top-level one, the only frame without label; the
\* call stack is empty only after a Return run in the top-level frame, and
\* then the run has ended normally
C17_FrameStack ==
    /\ phase = "running" =>
          /\ call_stack # <<>>
          /\ call_stack[1].label = None
          /\ \A i \in 2..Len(call_stack) : call_stack[i].label # None
    /\ (VmEntered /\ call_stack = <<>>) =>
          /\ phase = "halted"
          /\ Ran /\ LastInst.op = "Return"
          /\ Len(last[1].call_stack) = 1
          /\ last[1].call_stack[1].label = None

\* a run that called a subroutine, returned from it, and ended by a Return
\* in the top-level frame
C17_Witness ==
    /\ phase = "halted"
    /\ call_stack = <<>>
    /\ Ran /\ LastInst.op = "Return"
    /\ steps >= 3
    /\ \E k \in 1..Len(stmts) : stmts[k].op = "Call"

\* the Vm is as Vm::new makes it and has run nothing
VmUntouched ==
    /\ stack = <<>> /\ heap = EmptyMap /\ output = <<>>
    /\ call_stack = <<>> /\ traceback = None
    /\ last = None /\ steps = 0

\* C18: the VM is entered only when parse has returned a program, with every
\* token consumed and every jump patched; before that, and after a parse
\* error, no instruction has run and stack, heap and output are empty
C18_ParseBeforeRun ==
    /\ VmEntered =>
          /\ parse_error = None
          /\ cur.curr = "None"
          /\ pending = {}
    /\ phase \in {"new", "parsing", "patching", "parsed", "parse_error"} => VmUntouched
    /\ parse_error # None => (phase = "parse_error" /\ VmUntouched)

\* parse has failed at backpatching, after instructions were emitted
C18_Witness ==
    /\ phase = "parse_error"
    /\ parse_error[1].kind = "InvalidLabel"
    /\ Len(program.instructions) >= 2
    /\ VmUntouched

----------------------------------------------------------------------------
(* Claims about single instructions *)

\* every live frame's pc is the index of an instruction, so that a failure
\* of the latest instruction can be traced
TraceableFrames ==
    \A i \in 1..Len(call_stack) : call_stack[i].pc < Len(program.instructions)

\* C19: Copy(n), n >= 0, on a stack of more than n elements appends the
\* element n below the top and the run goes on; on a stack of n elements or
\* fewer it ends the run with a traceback of reason StackUnderflow
C19_Copy ==
    (Ran /\ LastInst.op = "Copy" /\ LastInst.arg >= 0 /\ TraceableFrames) =>
        IF Len(LastStack) >= LastInst.arg + 1
        THEN /\ phase = "running"
             /\ stack = Append(LastStack, LastStack[Len(LastStack) - LastInst.arg])
        ELSE /\ FailedWith("StackUnderflow")
             /\ stack = LastStack

\* the quotient truncated towards zero and the remainder of the sign of the
\* dividend, reduced into the signed range
Quotient(left, right) ==
    IF (left < 0) = (right < 0)
    THEN Abs(left) \div Abs(right)
    ELSE 0 - (Abs(left) \div Abs(right))
Remainder(left, right) == left - right * Quotient(left, right)

\* C20: Divide and Modulo on two or more elements with a right operand other
\* than 0 replace the two on top by the quotient or the remainder, and the
\* run goes on, whatever the operands
C20_DivideModulo ==
    (Ran /\ LastInst.op \in {"Divide", "Modulo"} /\ Len(LastStack) >= 2
         /\ LastRight # 0) =>
        /\ phase = "running"
        /\ stack = Append(LastBelow,
                          WrapI(IF LastInst.op = "Divide"
                                THEN Quotient(LastLeft, LastRight)
                                ELSE Remainder(LastLeft, LastRight)))

----------------------------------------------------------------------------
(* Claims about operands and labels *)

\* C21: in a parsed program the operand of every Copy and Slide is not
\* negative
C21_CountsNonNegative ==
    phase = "parsed" =>
        \A i \in 1..Len(program.instructions) :
            program.instructions[i].op \in {"Copy", "Slide"} =>
                program.instructions[i].arg >= 0

\* the statements of the source that carry a label
LabelStmts ==
    {k \in 1..Len(stmts) :
        stmts[k].op \in {"Label", "Call", "Jump", "JumpIfZero", "JumpIfNeg"}}
\* a label whose bits do not fit the index type
LabelOverlong(k) == BitsValue(stmts[k].bits) > IntMod - 1
\* parse has returned a program
ParseSucceeded ==
    phase \in {"parsed", "running", "halted", "traceback"} \/ (phase = "panic" /\ steps > 0)

\* C22: a source with a label whose bits do not fit the index type fails to
\* parse with TooManyLabels, and in a parsed program every jump has as
\* target a declaration of a label of the value that its own bits denote
C22_TooManyLabels ==
    NoRaw =>
        /\ (ParseEnded /\ \E k \in LabelStmts : LabelOverlong(k)) =>
              /\ phase = "parse_error"
              /\ parse_error[1].kind = "TooManyLabels"
        /\ ParseSucceeded =>
              \A k \in JumpStmts : \E d \in DeclsOf(k) : InstOf(k).arg = InstsBefore(d)

----------------------------------------------------------------------------
(* Claims about calls and jumps *)

\* the call stack before the latest iteration, and the same with the pc of
\* its top frame moved to pc
LastFrames == last[1].call_stack
FramesAt(frames, pc) == [frames EXCEPT ![Len(frames)].pc = pc]
\* the index of the latest instruction
LastPc == LastFrames[Len(LastFrames)].pc

\* C23: a Call leaves stack and heap as they are and puts one frame at its
\* target on top of the call stack; the Return that pops this frame leaves
\* the call stack as it was when the Call was fetched, with the caller at the
\* instruction after the Call
C23_CallReturn ==
    /\ (Ran /\ LastInst.op = "Call") =>
          /\ phase = "running"
          /\ stack = LastStack /\ heap = last[1].heap
          /\ Len(call_stack) = Len(LastFrames) + 1
          /\ SubSeq(call_stack, 1, Len(LastFrames)) = FramesAt(LastFrames, LastPc + 1)
          /\ call_stack[Len(call_stack)].pc = LastInst.arg
    /\ (Ran /\ LastInst.op = "Return" /\ last[1].callers # <<>>) =>
          LET made == last[1].callers[Len(last[1].callers)]
          IN  /\ phase = "running"
              /\ stack = LastStack /\ heap = last[1].heap
              /\ call_stack = FramesAt(made.frames, made.at + 1)

\* the Return of a subroutine called from a subroutine, with a value on the
\* stack
C23_Witness ==
    /\ Ran /\ LastInst.op = "Return"
    /\ Len(last[1].callers) = 2
    /\ phase = "running"
    /\ Len(call_stack) = 2
    /\ stack # <<>>

\* whether the latest instruction, a conditional jump, found its condition
Taken ==
    \/ LastInst.op = "JumpIfZero" /\ LastTop = 0
    \/ LastInst.op = "JumpIfNeg" /\ LastTop < 0

\* C24: a conditional jump on a non-empty stack pops one value and moves the
\* top frame to its target when the value is zero (JumpIfZero) or negative
\* (JumpIfNeg) and to the next instruction otherwise; a Jump moves the top
\* frame to its target and leaves the stack; none of them changes the heap
\* or a frame below the top one
C24_Jumps ==
    /\ (Ran /\ LastInst.op = "Jump") =>
          /\ phase = "running"
          /\ stack = LastStack /\ heap = last[1].heap
          /\ call_stack = FramesAt(LastFrames, LastInst.arg)
    /\ (Ran /\ LastInst.op \in {"JumpIfZero", "JumpIfNeg"} /\ LastStack # <<>>) =>
          /\ phase = "running"
          /\ stack = SubSeq(LastStack, 1, Len(LastStack) - 1)
          /\ heap = last[1].heap
          /\ call_stack = FramesAt(LastFrames,
                                   IF Taken THEN LastInst.arg ELSE LastPc + 1)

\* a JumpIfNeg taken in a subroutine, over a value left on the stack and an
\* entry in the heap, to an instruction that is not the next one
C24_Witness ==
    /\ Ran /\ LastInst.op = "JumpIfNeg"
    /\ LastStack # <<>> /\ LastTop < 0
    /\ LastInst.arg # LastPc + 1
    /\ Len(call_stack) = 2
    /\ stack # <<>> /\ heap # EmptyMap
    /\ phase = "running"

\* C25: whenever the loop of a parsed program is about to fetch, the pc of
\* the top frame is the index of an instruction
C25_FetchInRange ==
    phase = "running" => FetchPc < Len(program.instructions)

\* the label that the Call at instruction index idx names in the source
CalledLabel(idx) == BitsValue(stmts[StmtAt(idx)].bits)

\* C26: every frame above the top-level one carries the label that the Call
\* which made it names in the source, and a Call does not fault
C26_FrameLabels ==
    NoRaw =>
        /\ Len(call_stack) = Len(callers) + 1 =>
              \A i \in 2..Len(call_stack) :
                  call_stack[i].label = Some(CalledLabel(callers[i - 1].at))
        /\ (Ran /\ LastInst.op = "Call") => phase = "running"

----------------------------------------------------------------------------
(* Claims about the order of backpatching *)

\* C27: when parsing reaches patch_jumps, every order of visiting the
\* recorded jumps gives the same outcome: the same program, or the same
\* error kind and line
C27_PatchOrder ==
    (phase = "patching" /\ pending = DOMAIN labels.inst_list) =>
        Cardinality(PatchOutcomes(program, labels, pending)) = 1
====
